---- MODULE Spec2Model ----
(***************************************************************************)
(* A model of the brainfuck interpreter of src/src/main.rs: one            *)
(* Interpreter instance driven by the REPL.  A compile call lexes the      *)
(* text, validates the jumps and, when they match, runs the op list one    *)
(* instruction per step against the tape.                                  *)
(*                                                                         *)
(* Indices (data_pointer, inst_pointer, JumpPosition.start/end) are        *)
(* 0-based as in the source; TLA+ sequences are 1-based, so the Op at      *)
(* index i of the Vec is op_list[i + 1].                                   *)
(***************************************************************************)
EXTENDS Integers, Sequences, FiniteSets, TLC

\* ------------------------------------------------------------------ bounds
\* The tape length (30000 in the source, a const that "can be changed and
\* recompiled"): kept small so that both ends of the tape are reached.
DATA_SIZE == 3
\* Total number of source characters given to one session.
MaxChars == 4
\* Number of compile calls in one session.
MaxCalls == 2
\* Number of lines written to stdout in one session.
MaxOutput == 4
\* Number of results of read_char kept in one session of two compile calls.
MaxInput == 2

\* --------------------------------------------------------------- constants
I8_MAX == 127
I8_MIN == -128

INCREMENT_DP == ">"
DECREMENT_DP == "<"
INCREMENT_DP_VALUE == "+"
DECREMENT_DP_VALUE == "-"
OUTPUT_DP == "."
INPUT_DP == ","
JUMP_FORWARD == "["
JUMP_BACK == "]"

\* The characters a source text is made of: the eight commands and one
\* character that is none of them.
Chars == {INCREMENT_DP, DECREMENT_DP, INCREMENT_DP_VALUE, DECREMENT_DP_VALUE,
          OUTPUT_DP, INPUT_DP, JUMP_FORWARD, JUMP_BACK, "x"}

\* enum Op
Op == {"IncrementDp", "DecrementDp", "IncrementDpValue", "DecrementDpValue",
       "OutputDp", "InputDp", "JumpForward", "JumpBackward"}

\* The code points of the characters that are typed at an Input instruction.
CharCodes == {127, 128, 256}

\* The results of Term::read_char(): Ok(c), with the code point of c, or Err.
ReadResults == {[ok |-> TRUE, c |-> c] : c \in CharCodes} \cup {[ok |-> FALSE, c |-> 0]}

VARIABLES
    data,            \* Interpreter.data: [i8; N]
    data_pointer,    \* Interpreter.data_pointer
    inst_pointer,    \* Interpreter.inst_pointer
    op_list,         \* Interpreter.op_list
    jump_positions,  \* Interpreter.jump_positions
    output,          \* the lines println! wrote in output_dp
    input,           \* the results read_char gave input_dp, where they are kept
    pc,              \* "repl": waiting for a line; "run": in the loop of run;
                     \* "panicked": the process was ended by panic!
    outcome,         \* how the last compile call went: "none" (no call yet),
                     \* "mismatch", "running", "ok", "error", "panic"
    session,         \* the texts given to compile so far, in order
    last             \* the instruction run executed last in this call

vars == <<data, data_pointer, inst_pointer, op_list, jump_positions, output,
          input, pc, outcome, session, last>>

\* ------------------------------------------------------------------- lexer
\* The match of compile without the arm for INPUT_DP
OpOfChar_no_input(c) ==
    CASE c = INCREMENT_DP       -> <<"IncrementDp">>
      [] c = DECREMENT_DP       -> <<"DecrementDp">>
      [] c = INCREMENT_DP_VALUE -> <<"IncrementDpValue">>
      [] c = DECREMENT_DP_VALUE -> <<"DecrementDpValue">>
      [] c = OUTPUT_DP          -> <<"OutputDp">>
      [] c = JUMP_FORWARD       -> <<"JumpForward">>
      [] c = JUMP_BACK          -> <<"JumpBackward">>
      [] OTHER                  -> <<>>

\* The match of compile: the Op pushed for a character, if any.
OpOfChar(c) ==
    CASE c = INCREMENT_DP       -> <<"IncrementDp">>
      [] c = DECREMENT_DP       -> <<"DecrementDp">>
      [] c = INCREMENT_DP_VALUE -> <<"IncrementDpValue">>
      [] c = DECREMENT_DP_VALUE -> <<"DecrementDpValue">>
      [] c = OUTPUT_DP          -> <<"OutputDp">>
      [] c = INPUT_DP           -> <<"InputDp">>
      [] c = JUMP_FORWARD       -> <<"JumpForward">>
      [] c = JUMP_BACK          -> <<"JumpBackward">>
      [] OTHER                  -> <<>>

RECURSIVE LexFrom(_, _, _)
LexFrom(code, i, ops) ==
    IF i > Len(code) THEN ops
    ELSE LexFrom(code, i + 1, ops \o OpOfChar(code[i]))

\* The lexing loop without op_list.clear() before it
Lex_no_clear(code) == LexFrom(code, 1, op_list)

\* The for loop of compile over the characters, from a cleared op_list.
Lex(code) == LexFrom(code, 1, <<>>)

\* --------------------------------------------------------------- validator
\* validate_jumps from index `index` on, with the stack of (Op, index) and the
\* jump positions pushed so far; the value is <<returned bool, jump_positions>>.
RECURSIVE ValidateFrom(_, _, _, _)
ValidateFrom(ops, index, stack, jps) ==
    IF index >= Len(ops) THEN [ok |-> stack = <<>>, jump_positions |-> jps]
    ELSE IF ops[index + 1] = "JumpForward"
         THEN ValidateFrom(ops, index + 1, Append(stack, <<"JumpForward", index>>), jps)
    ELSE IF ops[index + 1] = "JumpBackward"
         THEN IF stack = <<>> \/ stack[Len(stack)][1] # "JumpForward"
              THEN [ok |-> FALSE, jump_positions |-> jps]
              ELSE ValidateFrom(ops, index + 1, SubSeq(stack, 1, Len(stack) - 1),
                                Append(jps, [start |-> stack[Len(stack)][2],
                                             end |-> index]))
    ELSE ValidateFrom(ops, index + 1, stack, jps)

\* validate_jumps taking the oldest pending `[` (the bottom of the stack) for
\* a `]` instead of the newest
RECURSIVE ValidateFromBottom(_, _, _, _)
ValidateFromBottom(ops, index, stack, jps) ==
    IF index >= Len(ops) THEN [ok |-> stack = <<>>, jump_positions |-> jps]
    ELSE IF ops[index + 1] = "JumpForward"
         THEN ValidateFromBottom(ops, index + 1,
                                 Append(stack, <<"JumpForward", index>>), jps)
    ELSE IF ops[index + 1] = "JumpBackward"
         THEN IF stack = <<>>
              THEN [ok |-> FALSE, jump_positions |-> jps]
              ELSE ValidateFromBottom(ops, index + 1, Tail(stack),
                                      Append(jps, [start |-> Head(stack)[2],
                                                   end |-> index]))
    ELSE ValidateFromBottom(ops, index + 1, stack, jps)

validate_jumps_bottom(ops) == ValidateFromBottom(ops, 0, <<>>, <<>>)

\* validate_jumps returning true at the end of the scan whatever is left on
\* the stack
RECURSIVE ValidateFromNoFinal(_, _, _, _)
ValidateFromNoFinal(ops, index, stack, jps) ==
    IF index >= Len(ops) THEN [ok |-> TRUE, jump_positions |-> jps]
    ELSE IF ops[index + 1] = "JumpForward"
         THEN ValidateFromNoFinal(ops, index + 1,
                                  Append(stack, <<"JumpForward", index>>), jps)
    ELSE IF ops[index + 1] = "JumpBackward"
         THEN IF stack = <<>>
              THEN [ok |-> FALSE, jump_positions |-> jps]
              ELSE ValidateFromNoFinal(ops, index + 1, SubSeq(stack, 1, Len(stack) - 1),
                                       Append(jps, [start |-> stack[Len(stack)][2],
                                                    end |-> index]))
    ELSE ValidateFromNoFinal(ops, index + 1, stack, jps)

validate_jumps_no_final_check(ops) == ValidateFromNoFinal(ops, 0, <<>>, <<>>)

\* validate_jumps passing over a `]` that finds the stack empty
RECURSIVE ValidateFromSkip(_, _, _, _)
ValidateFromSkip(ops, index, stack, jps) ==
    IF index >= Len(ops) THEN [ok |-> stack = <<>>, jump_positions |-> jps]
    ELSE IF ops[index + 1] = "JumpForward"
         THEN ValidateFromSkip(ops, index + 1,
                               Append(stack, <<"JumpForward", index>>), jps)
    ELSE IF ops[index + 1] = "JumpBackward"
         THEN IF stack = <<>>
              THEN ValidateFromSkip(ops, index + 1, stack, jps)
              ELSE ValidateFromSkip(ops, index + 1, SubSeq(stack, 1, Len(stack) - 1),
                                    Append(jps, [start |-> stack[Len(stack)][2],
                                                 end |-> index]))
    ELSE ValidateFromSkip(ops, index + 1, stack, jps)

validate_jumps_skip(ops) == ValidateFromSkip(ops, 0, <<>>, <<>>)

\* validate_jumps without jump_positions.clear() before the scan
validate_jumps_no_clear(ops) == ValidateFrom(ops, 0, <<>>, jump_positions)

validate_jumps(ops) == ValidateFrom(ops, 0, <<>>, <<>>)

\* ---------------------------------------------------------------- executor
\* increment_dp wrapping to the first cell instead of panicking
increment_dp_wrap(dp) ==
    IF dp = DATA_SIZE - 1 THEN [panic |-> FALSE, dp |-> 0]
    ELSE [panic |-> FALSE, dp |-> dp + 1]

increment_dp(dp) ==
    IF dp = DATA_SIZE - 1 THEN [panic |-> TRUE, dp |-> dp]
    ELSE [panic |-> FALSE, dp |-> dp + 1]

\* decrement_dp staying on the first cell instead of panicking
decrement_dp_clamp(dp) ==
    IF dp = 0 THEN [panic |-> FALSE, dp |-> 0]
    ELSE [panic |-> FALSE, dp |-> dp - 1]

decrement_dp(dp) ==
    IF dp = 0 THEN [panic |-> TRUE, dp |-> dp]
    ELSE [panic |-> FALSE, dp |-> dp - 1]

\* increment_dp_value without the arm for i8::MAX
increment_dp_value_nowrap(v) == v + 1

\* increment_dp_value staying at i8::MAX (a saturating add)
increment_dp_value_saturating(v) == IF v = I8_MAX THEN I8_MAX ELSE v + 1

increment_dp_value(v) == IF v = I8_MAX THEN I8_MIN ELSE v + 1

decrement_dp_value(v) == IF v = I8_MIN THEN I8_MAX ELSE v - 1

\* A cast of the char that stops at i8::MAX instead of cutting the high bits
AsI8_saturating(c) == IF c > I8_MAX THEN I8_MAX ELSE c

\* `c as i8` for a char c: the code point cut to its low 8 bits, read as a
\* two's complement number.
AsI8(c) == LET low == c % 256 IN IF low >= 128 THEN low - 256 ELSE low

\* Iterator::find: the first element of jps that satisfies the test.
FindStart(jps, ip) ==
    LET hits == {i \in 1..Len(jps) : jps[i].start = ip}
    IN IF hits = {} THEN <<>>
       ELSE <<jps[CHOOSE i \in hits : \A j \in hits : i <= j]>>

\* The find of jump_backward testing j.start instead of j.end
FindEnd_by_start(jps, ip) ==
    LET hits == {i \in 1..Len(jps) : jps[i].start = ip}
    IN IF hits = {} THEN <<>>
       ELSE <<jps[CHOOSE i \in hits : \A j \in hits : i <= j]>>

FindEnd(jps, ip) ==
    LET hits == {i \in 1..Len(jps) : jps[i].end = ip}
    IN IF hits = {} THEN <<>>
       ELSE <<jps[CHOOSE i \in hits : \A j \in hits : i <= j]>>

\* jump_forward going on with the Op after the `[` whatever the cell holds
jump_forward_enter(cell, ip, jps) == [ok |-> TRUE, ip |-> ip + 1]

\* jump_forward: the returned bool and the new inst_pointer.
jump_forward(cell, ip, jps) ==
    IF cell = 0
    THEN LET jp == FindStart(jps, ip)
         IN IF jp # <<>> THEN [ok |-> TRUE, ip |-> jp[1].end + 1]
            ELSE [ok |-> FALSE, ip |-> ip]
    ELSE [ok |-> TRUE, ip |-> ip + 1]

\* jump_backward going back to the `[` itself instead of the Op after it
jump_backward_to_start(cell, ip, jps) ==
    IF cell # 0
    THEN LET jp == FindEnd(jps, ip)
         IN IF jp # <<>> THEN [ok |-> TRUE, ip |-> jp[1].start]
            ELSE [ok |-> FALSE, ip |-> ip]
    ELSE [ok |-> TRUE, ip |-> ip + 1]

jump_backward(cell, ip, jps) ==
    IF cell # 0
    THEN LET jp == FindEnd(jps, ip)
         IN IF jp # <<>> THEN [ok |-> TRUE, ip |-> jp[1].start + 1]
            ELSE [ok |-> FALSE, ip |-> ip]
    ELSE [ok |-> TRUE, ip |-> ip + 1]

\* -------------------------------------------------------------------- state
NoLast == [op |-> "none", ip |-> 0, dp |-> 0, cell |-> 0, read |-> -1]

\* What `last` records of the instruction being executed: the Op, its index,
\* the data pointer and current cell before it, and the code point of the
\* character read_char gave it (-1 when it read none).
Executing(op) ==
    [op |-> op, ip |-> inst_pointer, dp |-> data_pointer, cell |-> data[data_pointer],
     read |-> -1]

\* Interpreter::new(), and the REPL before its first line.
Init ==
    /\ data = [i \in 0..(DATA_SIZE - 1) |-> 0]
    /\ data_pointer = 0
    /\ inst_pointer = 0
    /\ op_list = <<>>
    /\ jump_positions = <<>>
    /\ output = <<>>
    /\ input = <<>>
    /\ pc = "repl"
    /\ outcome = "none"
    /\ session = <<>>
    /\ last = NoLast

RECURSIVE SumLen(_)
SumLen(texts) == IF texts = <<>> THEN 0 ELSE Len(Head(texts)) + SumLen(Tail(texts))

\* The texts of at most n characters.
Texts(n) == UNION {[1..k -> Chars] : k \in 0..n}

\* The match of run on the Op at the instruction pointer.
Fetch(op) ==
    /\ pc = "run"
    /\ inst_pointer < Len(op_list)
    /\ op_list[inst_pointer + 1] = op

\* A compile call that puts the data pointer back on the first cell
compile_rewinding(code) ==
    /\ pc = "repl"
    /\ LET ops == Lex(code)
           v == validate_jumps(ops)
       IN /\ op_list' = ops
          /\ jump_positions' = v.jump_positions
          /\ IF ~v.ok
             THEN /\ outcome' = "mismatch"
                  /\ pc' = "repl"
                  /\ inst_pointer' = inst_pointer
             ELSE /\ outcome' = "running"
                  /\ pc' = "run"
                  /\ inst_pointer' = 0
    /\ session' = Append(session, code)
    /\ last' = NoLast
    /\ data_pointer' = 0
    /\ UNCHANGED <<data, output, input>>

\* A compile call whose run goes on from where the instruction pointer was
compile_no_reset(code) ==
    /\ pc = "repl"
    /\ LET ops == Lex(code)
           v == validate_jumps(ops)
       IN /\ op_list' = ops
          /\ jump_positions' = v.jump_positions
          /\ IF ~v.ok
             THEN /\ outcome' = "mismatch"
                  /\ pc' = "repl"
             ELSE /\ outcome' = "running"
                  /\ pc' = "run"
    /\ session' = Append(session, code)
    /\ last' = NoLast
    /\ UNCHANGED <<data, data_pointer, output, input, inst_pointer>>

\* One compile call up to the entry of the loop of run.
compile(code) ==
    /\ pc = "repl"
    /\ LET ops == Lex(code)
           v == validate_jumps(ops)
       IN /\ op_list' = ops
          /\ jump_positions' = v.jump_positions
          /\ IF ~v.ok
             THEN /\ outcome' = "mismatch"
                  /\ pc' = "repl"
                  /\ inst_pointer' = inst_pointer
             ELSE /\ outcome' = "running"
                  /\ pc' = "run"
                  /\ inst_pointer' = 0
    /\ session' = Append(session, code)
    /\ last' = NoLast
    /\ UNCHANGED <<data, data_pointer, output, input>>

Compile ==
    /\ Len(session) < MaxCalls
    /\ \E code \in Texts(MaxChars - SumLen(session)) : compile(code)

\* A move to the right that takes the value of the cell along
IncrementDp_carrying ==
    /\ Fetch("IncrementDp")
    /\ last' = Executing("IncrementDp")
    /\ LET r == increment_dp(data_pointer)
       IN IF r.panic
          THEN /\ pc' = "panicked"
               /\ outcome' = "panic"
               /\ UNCHANGED <<data, data_pointer, inst_pointer>>
          ELSE /\ data_pointer' = r.dp
               /\ data' = [data EXCEPT ![r.dp] = data[data_pointer]]
               /\ inst_pointer' = inst_pointer + 1
               /\ UNCHANGED <<pc, outcome>>
    /\ UNCHANGED <<op_list, jump_positions, output, input, session>>

IncrementDp ==
    /\ Fetch("IncrementDp")
    /\ last' = Executing("IncrementDp")
    /\ LET r == increment_dp(data_pointer)
       IN IF r.panic
          THEN /\ pc' = "panicked"
               /\ outcome' = "panic"
               /\ UNCHANGED <<data_pointer, inst_pointer>>
          ELSE /\ data_pointer' = r.dp
               /\ inst_pointer' = inst_pointer + 1
               /\ UNCHANGED <<pc, outcome>>
    /\ UNCHANGED <<data, op_list, jump_positions, output, input, session>>

DecrementDp ==
    /\ Fetch("DecrementDp")
    /\ last' = Executing("DecrementDp")
    /\ LET r == decrement_dp(data_pointer)
       IN IF r.panic
          THEN /\ pc' = "panicked"
               /\ outcome' = "panic"
               /\ UNCHANGED <<data_pointer, inst_pointer>>
          ELSE /\ data_pointer' = r.dp
               /\ inst_pointer' = inst_pointer + 1
               /\ UNCHANGED <<pc, outcome>>
    /\ UNCHANGED <<data, op_list, jump_positions, output, input, session>>

IncrementDpValue ==
    /\ Fetch("IncrementDpValue")
    /\ last' = Executing("IncrementDpValue")
    /\ data' = [data EXCEPT ![data_pointer] = increment_dp_value(data[data_pointer])]
    /\ inst_pointer' = inst_pointer + 1
    /\ UNCHANGED <<data_pointer, op_list, jump_positions, output, input, pc, outcome, session>>

DecrementDpValue ==
    /\ Fetch("DecrementDpValue")
    /\ last' = Executing("DecrementDpValue")
    /\ data' = [data EXCEPT ![data_pointer] = decrement_dp_value(data[data_pointer])]
    /\ inst_pointer' = inst_pointer + 1
    /\ UNCHANGED <<data_pointer, op_list, jump_positions, output, input, pc, outcome, session>>

\* output_dp printing the cell as an unsigned byte
output_dp_unsigned(out, cell) == Append(out, cell % 256)

\* println!("{}", cell): one line holding the decimal value of the cell.
output_dp(out, cell) == Append(out, cell)

OutputDp ==
    /\ Fetch("OutputDp")
    /\ Len(output) < MaxOutput
    /\ last' = Executing("OutputDp")
    /\ output' = output_dp(output, data[data_pointer])
    /\ inst_pointer' = inst_pointer + 1
    /\ UNCHANGED <<data, data_pointer, op_list, jump_positions, input, pc, outcome, session>>

\* The arm of run for Op::InputDp with input_dp, read_char returning r.
input_dp_arm(r) ==
    /\ Fetch("InputDp")
    /\ IF ~r.ok
       THEN /\ last' = Executing("InputDp")
            /\ pc' = "panicked"
            /\ outcome' = "panic"
            /\ UNCHANGED <<data, inst_pointer>>
       ELSE /\ last' = [Executing("InputDp") EXCEPT !.read = r.c]
            /\ data' = [data EXCEPT ![data_pointer] = AsI8(r.c)]
            /\ inst_pointer' = inst_pointer + 1
            /\ UNCHANGED <<pc, outcome>>
    /\ UNCHANGED <<data_pointer, op_list, jump_positions, output, session>>

\* The arm for Op::InputDp, the character read being one of `results`.
InputDpFrom(results) ==
    /\ \E r \in results : input_dp_arm(r)
    /\ UNCHANGED input

\* The same arm in a session that keeps what read_char returned.
InputDpKept ==
    /\ Len(input) < MaxInput
    /\ \E r \in ReadResults :
          /\ input_dp_arm(r)
          /\ input' = Append(input, r)

InputDp == InputDpFrom(ReadResults)

JumpForward ==
    /\ Fetch("JumpForward")
    /\ last' = Executing("JumpForward")
    /\ LET r == jump_forward(data[data_pointer], inst_pointer, jump_positions)
       IN /\ inst_pointer' = r.ip
          /\ IF r.ok THEN UNCHANGED <<pc, outcome>>
             ELSE pc' = "repl" /\ outcome' = "error"
    /\ UNCHANGED <<data, data_pointer, op_list, jump_positions, output, input, session>>

JumpBackward ==
    /\ Fetch("JumpBackward")
    /\ last' = Executing("JumpBackward")
    /\ LET r == jump_backward(data[data_pointer], inst_pointer, jump_positions)
       IN /\ inst_pointer' = r.ip
          /\ IF r.ok THEN UNCHANGED <<pc, outcome>>
             ELSE pc' = "repl" /\ outcome' = "error"
    /\ UNCHANGED <<data, data_pointer, op_list, jump_positions, output, input, session>>

\* The loop of run ends and run returns true; compile returns to the REPL.
RunReturn ==
    /\ pc = "run"
    /\ ~(inst_pointer < Len(op_list))
    /\ pc' = "repl"
    /\ outcome' = "ok"
    /\ UNCHANGED <<data, data_pointer, inst_pointer, op_list, jump_positions,
                   output, input, session, last>>

Next ==
    \/ Compile
    \/ IncrementDp
    \/ DecrementDp
    \/ IncrementDpValue
    \/ DecrementDpValue
    \/ OutputDp
    \/ InputDp
    \/ JumpForward
    \/ JumpBackward
    \/ RunReturn

Spec == Init /\ [][Next]_vars

\* ------------------------------------------------------- the clear loops
\* One session of a single line, a clear loop, with any character typed at its
\* Input instruction, so that the loop is entered on every cell value.
ClearLoops == { <<"+", "[", "-", "]">>, <<",", "[", "-", "]">>, <<",", "[", "+", "]">> }

AllReads == {[ok |-> TRUE, c |-> c] : c \in 0..255} \cup {[ok |-> FALSE, c |-> 0]}

CompileLoop ==
    /\ session = <<>>
    /\ \E code \in ClearLoops : compile(code)

InputDpAny == InputDpFrom(AllReads)

NextLoop ==
    \/ CompileLoop
    \/ InputDpAny
    \/ IncrementDpValue
    \/ DecrementDpValue
    \/ JumpForward
    \/ JumpBackward
    \/ RunReturn

\* One iteration of the loop of run that waits for nothing: run is a plain
\* loop on one thread, so it goes on while there is an instruction to execute.
RunStep ==
    \/ IncrementDpValue
    \/ DecrementDpValue
    \/ JumpForward
    \/ JumpBackward
    \/ RunReturn

LoopSpec == Init /\ [][NextLoop]_vars /\ WF_vars(RunStep)

\* ---------------------------------------------------------- the whole run
\* Number of iterations of the loop of run followed in one whole run.
MaxSteps == 1100

\* The interpreter of run_file at the entry of the loop of run on `ops`: the
\* fields of Interpreter::new, the lines written, the number of results taken
\* from the terminal and where run stands.
NewRun ==
    [data |-> [i \in 0..(DATA_SIZE - 1) |-> 0], dp |-> 0, ip |-> 0,
     out |-> <<>>, taken |-> 0, at |-> "run"]

\* One iteration of the loop of run on the interpreter c, read_char giving the
\* results `ins` in order; "ok" is the return of true, "error" the return of
\* false, "panic" a panic and "wait" a read_char that has nothing to give yet.
run_iteration(ops, jps, c, ins) ==
    IF ~(c.ip < Len(ops)) THEN [c EXCEPT !.at = "ok"]
    ELSE LET op == ops[c.ip + 1]
             cell == c.data[c.dp]
         IN CASE op = "IncrementDp" ->
                   LET r == increment_dp(c.dp)
                   IN IF r.panic THEN [c EXCEPT !.at = "panic"]
                      ELSE [c EXCEPT !.dp = r.dp, !.ip = c.ip + 1]
              [] op = "DecrementDp" ->
                   LET r == decrement_dp(c.dp)
                   IN IF r.panic THEN [c EXCEPT !.at = "panic"]
                      ELSE [c EXCEPT !.dp = r.dp, !.ip = c.ip + 1]
              [] op = "IncrementDpValue" ->
                   [c EXCEPT !.data[c.dp] = increment_dp_value(cell), !.ip = c.ip + 1]
              [] op = "DecrementDpValue" ->
                   [c EXCEPT !.data[c.dp] = decrement_dp_value(cell), !.ip = c.ip + 1]
              [] op = "OutputDp" ->
                   [c EXCEPT !.out = output_dp(c.out, cell), !.ip = c.ip + 1]
              [] op = "InputDp" ->
                   IF ~(c.taken < Len(ins)) THEN [c EXCEPT !.at = "wait"]
                   ELSE LET r == ins[c.taken + 1]
                        IN IF ~r.ok
                           THEN [c EXCEPT !.taken = c.taken + 1, !.at = "panic"]
                           ELSE [c EXCEPT !.data[c.dp] = AsI8(r.c),
                                          !.taken = c.taken + 1, !.ip = c.ip + 1]
              [] op = "JumpForward" ->
                   LET r == jump_forward(cell, c.ip, jps)
                   IN IF r.ok THEN [c EXCEPT !.ip = r.ip] ELSE [c EXCEPT !.at = "error"]
              [] op = "JumpBackward" ->
                   LET r == jump_backward(cell, c.ip, jps)
                   IN IF r.ok THEN [c EXCEPT !.ip = r.ip] ELSE [c EXCEPT !.at = "error"]

\* The loop of run from the interpreter c passes through, or ends in, `goal`
\* within n iterations.
RECURSIVE RunPasses(_, _, _, _, _, _)
RunPasses(ops, jps, c, ins, goal, n) ==
    IF c = goal THEN TRUE
    ELSE IF c.at # "run" \/ n = 0 THEN FALSE
    ELSE RunPasses(ops, jps, run_iteration(ops, jps, c, ins), ins, goal, n - 1)

\* compile on a new interpreter, as in run_file, passes through or ends in
\* `goal`: it runs the text only if validate_jumps accepts it.
CompilePasses(code, ins, goal) ==
    LET ops == Lex(code)
        v == validate_jumps(ops)
    IN v.ok /\ RunPasses(ops, v.jump_positions, NewRun, ins, goal, MaxSteps)

\* ------------------------------------------------------- two compile calls
\* Number of characters of the two texts together.
MaxPair == 4

\* A session of two lines: a first text and a second text.
CompilePair ==
    /\ Len(session) < 2
    /\ \E code \in Texts(MaxPair - SumLen(session)) : compile(code)

NextPair ==
    \/ CompilePair
    \/ IncrementDp
    \/ DecrementDp
    \/ IncrementDpValue
    \/ DecrementDpValue
    \/ OutputDp
    \/ InputDpKept
    \/ JumpForward
    \/ JumpBackward
    \/ RunReturn

PairSpec == Init /\ [][NextPair]_vars

\* -------------------------------------------------------------- the input
\* The largest code point typed at an Input instruction in an input session.
MaxCode == 520

\* The texts of an input session: `,` on a cell holding 0, 1 and -1.
InputTexts == { <<",">>, <<"+", ",">>, <<"-", ",">> }

WideReads == {[ok |-> TRUE, c |-> c] : c \in 0..MaxCode} \cup {[ok |-> FALSE, c |-> 0]}

CompileInput ==
    /\ session = <<>>
    /\ \E code \in InputTexts : compile(code)

InputDpWide == InputDpFrom(WideReads)

NextInput ==
    \/ CompileInput
    \/ InputDpWide
    \/ IncrementDpValue
    \/ DecrementDpValue
    \/ RunReturn

InputSpec == Init /\ [][NextInput]_vars

\* ------------------------------------------------------------ the lexer
\* Length of the text of the one compile call of a lexer session.
MaxText == 4

\* One compile call on any text of at most MaxText characters, up to the
\* entry of the loop of run.
CompileText ==
    /\ session = <<>>
    /\ \E code \in Texts(MaxText) : compile(code)

\* The compile call of run_file and the run it goes on into.
NextLex ==
    \/ CompileText
    \/ IncrementDp
    \/ DecrementDp
    \/ IncrementDpValue
    \/ DecrementDpValue
    \/ OutputDp
    \/ InputDp
    \/ JumpForward
    \/ JumpBackward
    \/ RunReturn

LexSpec == Init /\ [][NextLex]_vars

\* ------------------------------------------------------------------- types
I8 == I8_MIN..I8_MAX

TypeOK ==
    /\ data \in [0..(DATA_SIZE - 1) -> I8]
    /\ data_pointer \in Nat
    /\ inst_pointer \in Nat
    /\ input \in Seq([ok : BOOLEAN, c : Nat])
    /\ Len(input) <= MaxInput
    /\ pc \in {"repl", "run", "panicked"}
    /\ outcome \in {"none", "mismatch", "running", "ok", "error", "panic"}

\* ------------------------------------------------------------------ claims
ZeroTape == [i \in 0..(DATA_SIZE - 1) |-> 0]

\* C1: in every reachable state the data pointer is an index of the tape,
\* 0 <= data_pointer < DATA_SIZE, and a move that completes has moved it by
\* exactly one cell: it is never wrapped around and never held at the edge.
C1_DataPointerInBounds ==
    /\ data_pointer \in 0..(DATA_SIZE - 1)
    /\ (last.op = "IncrementDp" /\ pc # "panicked") => data_pointer = last.dp + 1
    /\ (last.op = "DecrementDp" /\ pc # "panicked") => data_pointer = last.dp - 1

\* C1 witness: `>` has just moved the data pointer onto the last cell.
C1_Witness ==
    /\ last.op = "IncrementDp"
    /\ pc = "run"
    /\ data_pointer = DATA_SIZE - 1

\* The instruction about to be executed is a move off the tape.
MoveOffTape ==
    \/ Fetch("IncrementDp") /\ data_pointer = DATA_SIZE - 1
    \/ Fetch("DecrementDp") /\ data_pointer = 0

\* C2: `>` on the last cell and `<` on cell 0 are fatal: the step ends the
\* process, leaves the data pointer, the tape and the output written so far as
\* they are, and after it no step changes anything (no instruction of this or
\* of a later input runs, nothing more is written).
C2_MoveOffTapeFatal ==
    [][ /\ MoveOffTape =>
              /\ pc' = "panicked"
              /\ data_pointer' = data_pointer
              /\ inst_pointer' = inst_pointer
              /\ data' = data
              /\ output' = output
        /\ pc = "panicked" => UNCHANGED vars ]_vars

\* C2 witness: the process was ended by `>` on the last cell, after an earlier
\* instruction of the same input changed the tape, and the change is kept.
C2_Witness ==
    /\ pc = "panicked"
    /\ last.op = "IncrementDp"
    /\ data_pointer = DATA_SIZE - 1
    /\ data[0] = 1

\* C3: cell arithmetic is 8-bit signed with wraparound: `+` takes 127 to -128
\* and any other value v to v + 1, `-` takes -128 to 127 and any other value v
\* to v - 1, every cell is in -128..127 in every reachable state, and neither
\* instruction ends the process or the run.
C3_CellArithmeticWraps ==
    /\ \A i \in 0..(DATA_SIZE - 1) : data[i] \in -128..127
    /\ last.op = "IncrementDpValue" =>
          /\ data[last.dp] = ((last.cell + 1 + 128) % 256) - 128
          /\ last.cell = 127 => data[last.dp] = -128
          /\ last.cell # 127 => data[last.dp] = last.cell + 1
    /\ last.op = "DecrementDpValue" =>
          /\ data[last.dp] = ((last.cell - 1 + 128) % 256) - 128
          /\ last.cell = -128 => data[last.dp] = 127
          /\ last.cell # -128 => data[last.dp] = last.cell - 1
    /\ last.op \in {"IncrementDpValue", "DecrementDpValue"} =>
          /\ pc # "panicked"
          /\ outcome \in {"running", "ok"}
          /\ inst_pointer = last.ip + 1

\* C3 witness: `+` has just been executed on a cell holding 127.
C3_Witness ==
    /\ last.op = "IncrementDpValue"
    /\ last.cell = 127
    /\ data[last.dp] = -128

\* ------------------------------------------------- brackets, by counting
Range(f) == {f[i] : i \in DOMAIN f}

\* The number of `[` less the number of `]` among the first n instructions.
RECURSIVE Depth(_, _)
Depth(ops, n) ==
    IF n = 0 THEN 0
    ELSE Depth(ops, n - 1) + (IF ops[n] = "JumpForward" THEN 1
                              ELSE IF ops[n] = "JumpBackward" THEN -1 ELSE 0)

\* The depth after each prefix of the sequence.
DepthProfile(ops) == [n \in 0..Len(ops) |-> Depth(ops, n)]

\* Balanced brackets: no prefix closes more than it opened and the whole
\* sequence closes all it opened.
Balanced(ops) ==
    LET d == DepthProfile(ops)
    IN /\ \A n \in 0..Len(ops) : d[n] >= 0
       /\ d[Len(ops)] = 0

\* A `]` with no pending `[`.
HasExcessCloser(ops) ==
    LET d == DepthProfile(ops) IN \E n \in 1..Len(ops) : d[n] < 0

\* The indices (0-based) of the instructions equal to op.
Positions(ops, op) == {i \in 0..(Len(ops) - 1) : ops[i + 1] = op}

\* e closes the `[` at index s: it is the first `]` after s that brings the
\* depth back to what it was before s.
Closes(ops, s, e) ==
    /\ s < e
    /\ ops[s + 1] = "JumpForward"
    /\ ops[e + 1] = "JumpBackward"
    /\ Depth(ops, e + 1) = Depth(ops, s)
    /\ \A k \in (s + 1)..e : Depth(ops, k) > Depth(ops, s)

\* The pairs of matching brackets among the first n instructions.
MatchedPairs(ops, n) ==
    {j \in [start : 0..(n - 1), end : 0..(n - 1)] : Closes(ops, j.start, j.end)}

\* C4: for every instruction sequence with balanced brackets (the empty one
\* and `[]` included) validate_jumps succeeds and leaves exactly one jump
\* position per `[`, each with start < end, start at a `[` and end at a `]`,
\* the starts being all the `[`, the ends all the `]`, one pair per bracket,
\* and each pair the properly nested match.
C4_BalancedValidates ==
    Balanced(op_list) =>
        /\ outcome # "mismatch"
        /\ Len(jump_positions) = Cardinality(Positions(op_list, "JumpForward"))
        /\ Cardinality(Range(jump_positions)) = Len(jump_positions)
        /\ \A j \in Range(jump_positions) :
              /\ j.start < j.end
              /\ op_list[j.start + 1] = "JumpForward"
              /\ op_list[j.end + 1] = "JumpBackward"
              /\ Closes(op_list, j.start, j.end)
        /\ {j.start : j \in Range(jump_positions)} = Positions(op_list, "JumpForward")
        /\ {j.end : j \in Range(jump_positions)} = Positions(op_list, "JumpBackward")
        /\ \A j, k \in Range(jump_positions) :
              (j.start = k.start \/ j.end = k.end) => j = k

\* C4 witness: `[[]]` was validated and run, with the inner pair (1, 2) and the
\* outer pair (0, 3).
C4_Witness ==
    /\ op_list = <<"JumpForward", "JumpForward", "JumpBackward", "JumpBackward">>
    /\ outcome = "ok"
    /\ Range(jump_positions) = {[start |-> 1, end |-> 2], [start |-> 0, end |-> 3]}

\* The same count on the characters of a text.
TextDepth(code, n) ==
    Cardinality({i \in 1..n : code[i] = "["}) - Cardinality({i \in 1..n : code[i] = "]"})

TextBalanced(code) ==
    /\ \A n \in 0..Len(code) : TextDepth(code, n) >= 0
    /\ TextDepth(code, Len(code)) = 0

\* C5: a compile call on a text with unbalanced brackets reports the mismatch
\* and returns to the REPL without executing anything: the tape, the data
\* pointer and the output are as before the call, also for instructions that
\* come before the offending bracket, and the interpreter accepts the next
\* line.
C5_UnbalancedNotRun ==
    [][ (session' # session /\ ~TextBalanced(session'[Len(session')])) =>
            /\ outcome' = "mismatch"
            /\ pc' = "repl"
            /\ last' = NoLast
            /\ data' = data
            /\ data_pointer' = data_pointer
            /\ output' = output ]_vars

\* C5 witness: `+.[` was refused with nothing executed, and the `.` of the
\* next line has printed the untouched cell.
C5_Witness ==
    /\ session = << <<"+", ".", "[">>, <<".">> >>
    /\ outcome = "ok"
    /\ output = <<0>>
    /\ data = ZeroTape

\* C6 as claimed: after validation failed on an excess `]` the jump positions
\* are empty.
C6_AsClaimed ==
    HasExcessCloser(op_list) => (outcome = "mismatch" /\ jump_positions = <<>>)

\* The index (0-based) of the first `]` with no pending `[`.
FirstExcessCloser(ops) ==
    LET d == DepthProfile(ops)
    IN (CHOOSE n \in 1..Len(ops) : d[n] < 0 /\ \A m \in 1..(n - 1) : d[m] >= 0) - 1

\* C6, amended: for every instruction sequence with an excess `]` validation
\* fails and nothing is run; the jump positions left behind are exactly the
\* pairs matched before the first excess `]` (none when no pair closes before
\* it), so `[]]` leaves the pair (0, 1).
C6_ExcessCloserFails ==
    HasExcessCloser(op_list) =>
        /\ outcome = "mismatch"
        /\ pc = "repl"
        /\ last = NoLast
        /\ Range(jump_positions) = MatchedPairs(op_list, FirstExcessCloser(op_list))
        /\ Len(jump_positions) = Cardinality(Range(jump_positions))

\* C6 witness: `[]]` was refused and the pair (0, 1) is left in jump_positions.
C6_Witness ==
    /\ op_list = <<"JumpForward", "JumpBackward", "JumpBackward">>
    /\ outcome = "mismatch"
    /\ jump_positions = <<[start |-> 0, end |-> 1]>>

\* The instruction a command character stands for.
CommandOp ==
    ">" :> "IncrementDp" @@ "<" :> "DecrementDp" @@ "+" :> "IncrementDpValue"
    @@ "-" :> "DecrementDpValue" @@ "." :> "OutputDp" @@ "," :> "InputDp"
    @@ "[" :> "JumpForward" @@ "]" :> "JumpBackward"

IsCommand(c) == c \in DOMAIN CommandOp

\* The instructions of a text: its command characters, in order.
OpsOfText(code) ==
    LET kept == SelectSeq(code, IsCommand)
    IN [i \in 1..Len(kept) |-> CommandOp[kept[i]]]

\* C7: the tape is zeroed and the data pointer 0 at construction only: every
\* compile call starts from the tape and the data pointer the previous call
\* left, while the op list it builds holds the instructions of its own text
\* and none of an earlier one; so `+` and then `.` in one session prints 1.
C7_SessionPersistence ==
    /\ (data = ZeroTape /\ data_pointer = 0 /\ op_list = <<>>)
    /\ [][ session' # session =>
               /\ data' = data
               /\ data_pointer' = data_pointer
               /\ op_list' = OpsOfText(session'[Len(session')]) ]_vars
    /\ []((session = << <<"+">>, <<".">> >> /\ outcome = "ok") => output = <<1>>)

\* C7 witness: `+` and then `.` were compiled and run, and 1 was printed.
C7_Witness ==
    /\ session = << <<"+">>, <<".">> >>
    /\ outcome = "ok"
    /\ output = <<1>>
    /\ op_list = <<"OutputDp">>

\* C8: in a validated sequence `[` at index p with the current cell 0 sets the
\* instruction pointer to end + 1 of the one jump position whose start is p,
\* and to p + 1 otherwise; `]` at index p with the current cell non-zero sets
\* it to start + 1 of the one jump position whose end is p, and to p + 1
\* otherwise; neither changes the tape or the data pointer.
C8_JumpResolution ==
    [][ /\ Fetch("JumpForward") =>
              /\ data' = data
              /\ data_pointer' = data_pointer
              /\ data[data_pointer] # 0 => inst_pointer' = inst_pointer + 1
              /\ data[data_pointer] = 0 =>
                    /\ \E j \in Range(jump_positions) : j.start = inst_pointer
                    /\ \A j \in Range(jump_positions) :
                          j.start = inst_pointer => inst_pointer' = j.end + 1
        /\ Fetch("JumpBackward") =>
              /\ data' = data
              /\ data_pointer' = data_pointer
              /\ data[data_pointer] = 0 => inst_pointer' = inst_pointer + 1
              /\ data[data_pointer] # 0 =>
                    /\ \E j \in Range(jump_positions) : j.end = inst_pointer
                    /\ \A j \in Range(jump_positions) :
                          j.end = inst_pointer => inst_pointer' = j.start + 1 ]_vars

\* C8 witness: `]` at index 3 was executed on a non-zero cell and went back to
\* index 2, the Op after its `[` at index 1.
C8_Witness ==
    /\ last.op = "JumpBackward"
    /\ last.cell # 0
    /\ last.ip = 3
    /\ inst_pointer = 2
    /\ [start |-> 1, end |-> 3] \in Range(jump_positions)

\* C9: every execution of `.` appends one line to the output, holding the
\* signed value (-128..127) of the current cell, after the lines written
\* before; no other step writes; so `++.` on a fresh interpreter prints
\* exactly 2.
C9_OutputLines ==
    /\ [][ IF Fetch("OutputDp")
           THEN /\ output' = Append(output, data[data_pointer])
                /\ data[data_pointer] \in -128..127
           ELSE output' = output ]_vars
    /\ []((session = << <<"+", "+", ".">> >> /\ outcome = "ok") => output = <<2>>)

\* C9 witness: `,.` has printed the negative value read into the cell.
C9_Witness ==
    /\ last.op = "OutputDp"
    /\ last.cell = -128
    /\ output = <<-128>>

\* run has returned true at the end of the op list, with the current cell 0
\* and nothing printed.
ClearedAndDone ==
    /\ pc = "repl"
    /\ outcome = "ok"
    /\ inst_pointer = Len(op_list)
    /\ data[data_pointer] = 0
    /\ output = <<>>

\* C10: the clear loop terminates: the run of `+[-]` on a fresh interpreter,
\* and the runs of `[-]` and `[+]` entered on any cell value in -128..127,
\* reach normal termination (instruction pointer = length of the op list, run
\* returns true) with the cell 0 and no output; in `+[-]` the body runs exactly
\* once: `[` finds 1 and enters, `-` finds 1, `]` finds 0 and falls through.
C10_ClearLoopTerminates ==
    /\ (pc = "run" /\ ~Fetch("InputDp")) ~> ClearedAndDone
    /\ [](session = << <<"+", "[", "-", "]">> >> =>
             /\ last.op = "JumpForward" => (last.cell = 1 /\ inst_pointer = 2)
             /\ last.op = "DecrementDpValue" => last.cell = 1
             /\ last.op = "JumpBackward" => (last.cell = 0 /\ inst_pointer = 4))

\* C10 witness: the run of `+[-]` on a fresh interpreter has returned true
\* after its `]` found the cell 0, with nothing printed.
C10_Witness ==
    /\ session = << <<"+", "[", "-", "]">> >>
    /\ ClearedAndDone
    /\ last.op = "JumpBackward"

\* C11: a loop entered on a zero cell is skipped: `[` executed on a cell
\* holding 0 leaves the instruction pointer right after the `]` that closes it
\* (by bracket counting), which is the next instruction executed, or the end
\* of the op list; nothing between the two brackets is executed, nested loops
\* included; so `[+]` on a fresh interpreter executes its `[` only and ends
\* with no output and the tape still zero.
C11_ZeroLoopSkipped ==
    /\ [][ (Fetch("JumpForward") /\ data[data_pointer] = 0) =>
               /\ \E e \in 0..(Len(op_list) - 1) :
                     /\ Closes(op_list, inst_pointer, e)
                     /\ inst_pointer' = e + 1
               /\ pc' = "run"
               /\ UNCHANGED <<data, data_pointer, output>> ]_vars
    /\ [](session = << <<"[", "+", "]">> >> =>
             /\ last.op \in {"none", "JumpForward"}
             /\ data = ZeroTape
             /\ output = <<>>
             /\ last.op = "JumpForward" => inst_pointer = 3)

\* C11 witness: `[[]]` on a zero cell: the outer `[` at index 0 was the only
\* instruction executed and the run has ended at index 4.
C11_Witness ==
    /\ op_list = <<"JumpForward", "JumpForward", "JumpBackward", "JumpBackward">>
    /\ last.op = "JumpForward"
    /\ last.ip = 0
    /\ last.cell = 0
    /\ inst_pointer = 4
    /\ outcome = "ok"

\* C12: jump positions are never stale: in every state in which run is
\* executing, in any session and after successful or failed earlier compile
\* calls, jump_positions holds exactly the pairs of matching brackets of the
\* current op list, each once, and no pair of an earlier input.
C12_JumpPairsNeverStale ==
    [](pc = "run" =>
          /\ Range(jump_positions) = MatchedPairs(op_list, Len(op_list))
          /\ Len(jump_positions) = Cardinality(Range(jump_positions)))

\* C12 witness: `[]]` was refused, leaving the pair (0, 1) behind, and the run
\* of the next line `+` has no jump position.
C12_Witness ==
    /\ session = << <<"[", "]", "]">>, <<"+">> >>
    /\ pc = "run"
    /\ jump_positions = <<>>
    /\ last.op = "IncrementDpValue"

\* C13: the internal-consistency failure is unreachable: after validation has
\* succeeded every lookup of jump_forward and jump_backward finds its pair, run
\* never returns false ("Error occured during execution." is never reported),
\* and a run ends only by returning true or by a panic.
C13_NoLookupFailure ==
    /\ outcome # "error"
    /\ Fetch("JumpForward") => \E j \in Range(jump_positions) : j.start = inst_pointer
    /\ Fetch("JumpBackward") => \E j \in Range(jump_positions) : j.end = inst_pointer
    /\ (last.op # "none" /\ pc # "run") =>
          \/ pc = "repl" /\ outcome = "ok" /\ inst_pointer = Len(op_list)
          \/ pc = "panicked" /\ outcome = "panic"

\* C13 witness: `]` has looked up its pair on a non-zero cell, gone back, and
\* the run goes on.
C13_Witness ==
    /\ last.op = "JumpBackward"
    /\ last.cell # 0
    /\ pc = "run"
    /\ outcome = "running"
    /\ inst_pointer <= last.ip

\* The text with the character c put in after its first i characters.
Inserted(code, i, c) == SubSeq(code, 1, i) \o <<c>> \o SubSeq(code, i + 1, Len(code))

\* The text without its i-th character.
Removed(code, i) == SubSeq(code, 1, i - 1) \o SubSeq(code, i + 1, Len(code))

\* The command character of an instruction.
CharOfOp(op) == CHOOSE c \in DOMAIN CommandOp : CommandOp[c] = op

\* The text made of the command characters of an op list.
TextOfOps(ops) == [i \in 1..Len(ops) |-> CharOfOp(ops[i])]

\* C14: for every source text the op list is the text with every character
\* other than > < + - . , [ ] removed, one instruction per command character in
\* source order; putting a character that is no command in anywhere, or taking
\* one out, does not change the op list; and lexing the already filtered text
\* gives the same op list.
C14_LexerFilters ==
    session # <<>> =>
        LET code == session[Len(session)]
        IN /\ op_list = OpsOfText(code)
           /\ Len(op_list) = Cardinality({i \in 1..Len(code) : IsCommand(code[i])})
           /\ \A i \in 0..Len(code) : Lex(Inserted(code, i, "x")) = op_list
           /\ \A i \in 1..Len(code) :
                 ~IsCommand(code[i]) => Lex(Removed(code, i)) = op_list
           /\ Lex(TextOfOps(op_list)) = op_list
           /\ Lex(SelectSeq(code, IsCommand)) = op_list

\* C14 witness: `x,x.` was lexed to the two instructions Input, Output.
C14_Witness ==
    /\ session = << <<"x", ",", "x", ".">> >>
    /\ op_list = <<"InputDp", "OutputDp">>

\* C15: `,` stores the code point of the character read, cut to 8 bits and
\* read as signed, into the current cell, whatever the cell held: for the code
\* c the cell becomes ((c mod 256) + 128) mod 256 - 128, so 65 gives 65, 200
\* gives -56 and 256 gives 0; the data pointer stays and the instruction
\* pointer advances by 1.
C15_InputTruncates ==
    (last.op = "InputDp" /\ last.read >= 0) =>
        /\ data[last.dp] = (((last.read % 256) + 128) % 256) - 128
        /\ last.read = 65 => data[last.dp] = 65
        /\ last.read = 200 => data[last.dp] = -56
        /\ last.read = 256 => data[last.dp] = 0
        /\ data[last.dp] \in -128..127
        /\ data_pointer = last.dp
        /\ inst_pointer = last.ip + 1
        /\ pc # "panicked"

\* C15 witness: `,` on a cell holding 1 has read the code point 200 and the
\* cell holds -56.
C15_Witness ==
    /\ last.op = "InputDp"
    /\ last.cell = 1
    /\ last.read = 200
    /\ data[last.dp] = -56

\* C16: decrementing a byte below 0 wraps around to i8::MAX: after `-` on a
\* cell holding 0 the cell holds 127.
C16_DecrementBelowZeroWraps ==
    (last.op = "DecrementDpValue" /\ last.cell = 0) => data[last.dp] = I8_MAX

\* C16 witness: `-` has run on a cell holding 0 and left -1, since
\* decrement_dp_value wraps only a cell holding i8::MIN.
C16_Witness ==
    /\ last.op = "DecrementDpValue"
    /\ last.cell = 0
    /\ data[last.dp] = -1

\* C17: the instruction pointer is 0 when a run starts, wherever the previous
\* run ended; in every state of a run, a panicked one included, it lies in
\* 0..Len(op_list); an instruction is executed only at an instruction pointer
\* smaller than Len(op_list), and is the Op found there; and when run returns
\* true the instruction pointer equals Len(op_list).
C17_InstPointerRange ==
    /\ [][(pc = "repl" /\ pc' = "run") => inst_pointer' = 0]_vars
    /\ [](pc # "repl" => inst_pointer \in 0..Len(op_list))
    /\ [][(pc = "run" /\ pc' # "repl") =>
            /\ inst_pointer < Len(op_list)
            /\ last'.ip = inst_pointer
            /\ last'.op = op_list[inst_pointer + 1]
            /\ inst_pointer' \in 0..Len(op_list)]_vars
    /\ [][(pc = "run" /\ pc' = "repl") =>
            /\ outcome' = "ok"
            /\ inst_pointer = Len(op_list)
            /\ inst_pointer' = Len(op_list)]_vars
    /\ [](outcome = "ok" => inst_pointer = Len(op_list))

\* C17 witness: the run of `++` ended with the instruction pointer at 2, and
\* the run of the next text stands at its start with the instruction pointer 0.
C17_Witness ==
    /\ Len(session) = 2
    /\ session[1] = <<"+", "+">>
    /\ data[0] = 2
    /\ Len(op_list) > 0
    /\ pc = "run"
    /\ last = NoLast
    /\ inst_pointer = 0

\* The cells other than the one at index dp are the same before and after
OtherCellsKept(dp) == \A i \in DOMAIN data : i # dp => data'[i] = data[i]

\* C19: each executed instruction changes only its own target.  `+`, `-` and
\* `,` leave the data pointer and every cell but the current one unchanged;
\* `>` and `<`, unless they panic, move the data pointer by exactly 1 and
\* leave every cell unchanged; `.`, `[` and `]` leave the tape and the data
\* pointer unchanged; every instruction but `[` and `]` that does not panic
\* advances the instruction pointer by exactly 1; only `.` changes the output,
\* and no instruction changes op_list or jump_positions.
C19_FrameEffects ==
    [][(pc = "run" /\ inst_pointer < Len(op_list)) =>
        LET op == op_list[inst_pointer + 1] IN
        /\ op \in {"IncrementDpValue", "DecrementDpValue", "InputDp"} =>
              /\ OtherCellsKept(data_pointer)
              /\ data_pointer' = data_pointer
        /\ op = "IncrementDp" =>
              /\ data' = data
              /\ pc' # "panicked" => data_pointer' = data_pointer + 1
        /\ op = "DecrementDp" =>
              /\ data' = data
              /\ pc' # "panicked" => data_pointer' = data_pointer - 1
        /\ op \in {"OutputDp", "JumpForward", "JumpBackward"} =>
              /\ data' = data
              /\ data_pointer' = data_pointer
        /\ (op \notin {"JumpForward", "JumpBackward"} /\ pc' # "panicked") =>
              inst_pointer' = inst_pointer + 1
        /\ pc' = "panicked" =>
              /\ data' = data
              /\ data_pointer' = data_pointer
              /\ inst_pointer' = inst_pointer
        /\ op # "OutputDp" => output' = output
        /\ op = "OutputDp" => output' = Append(output, data[data_pointer])
        /\ op_list' = op_list
        /\ jump_positions' = jump_positions
    ]_vars

\* C19 witness: with the data pointer on cell 1 and cell 0 holding 1, `-` has
\* changed cell 1 alone.
C19_Witness ==
    /\ last.op = "DecrementDpValue"
    /\ last.dp = 1
    /\ last.cell = 0
    /\ data_pointer = 1
    /\ data[0] = 1
    /\ data[1] = -1
    /\ data[2] = 0
    /\ inst_pointer = last.ip + 1

\* The texts of a session typed as one text.
RECURSIVE Joined(_)
Joined(texts) == IF texts = <<>> THEN <<>> ELSE Head(texts) \o Joined(Tail(texts))

Front(texts) == SubSeq(texts, 1, Len(texts) - 1)

\* Where the interpreter of the session stands, as a point of the whole run of
\* the joined text: its instruction pointer counts from the start of the last
\* text.
SessionPoint ==
    [data |-> data, dp |-> data_pointer,
     ip |-> inst_pointer + Len(OpsOfText(Joined(Front(session)))),
     out |-> output, taken |-> Len(input),
     at |-> IF pc = "run" THEN "run" ELSE IF pc = "panicked" THEN "panic" ELSE outcome]

\* The texts of the session are bracket-balanced and at least two, and the
\* last of them is run.
IncrementalRun ==
    /\ Len(session) >= 2
    /\ \A i \in 1..Len(session) : TextBalanced(session[i])
    /\ outcome \in {"running", "ok", "panic"}

\* C18: entering bracket-balanced texts one compile call after the other is
\* the same as one compile call on their concatenation on a new interpreter
\* with the same characters read.  The run of the last text starts in a state
\* the run of the joined text passes through; each of its steps is the step
\* the run of the joined text takes from there, so that both go on for ever or
\* neither does; and where it ends, by the return of true or by a panic, the
\* run of the joined text ends, with the same tape, data pointer and lines
\* written.
C18_IncrementalIsContinuous ==
    /\ [][IncrementalRun' =>
            IF session' # session
            THEN CompilePasses(Joined(session'), input', SessionPoint')
            ELSE LET ops == Lex(Joined(session))
                     jps == validate_jumps(ops).jump_positions
                 IN /\ SessionPoint.at = "run"
                    /\ SessionPoint' = run_iteration(ops, jps, SessionPoint, input')
         ]_vars
    /\ []((IncrementalRun /\ pc # "run")
            => CompilePasses(Joined(session), input, SessionPoint))

\* C18 witness: after `,` read the character 127, the call on `[-]` has
\* counted the cell down to 0 and returned, as the one text `,[-]` does.
C18_Witness ==
    /\ session = << <<",">>, <<"[", "-", "]">> >>
    /\ input = <<[ok |-> TRUE, c |-> 127]>>
    /\ last.op = "JumpBackward"
    /\ pc = "repl"
    /\ outcome = "ok"
    /\ data = ZeroTape

====
